---- MODULE Spec2Model ----
(***************************************************************************)
(* A model of the S3 file handle of package s3fs (src/s3fs/file.go, the    *)
(* revision that starts at line 66) and of S3Fs.OpenFile                   *)
(* (src/unnamed/part_000).                                                 *)
(*                                                                         *)
(* One handle works on one key of the store.  Every handler of File is a   *)
(* pure operator over a record m that holds the handle's fields, the store *)
(* and the environment of the call; the actions apply one handler each.    *)
(*                                                                         *)
(* Bytes are numbers.  The code never branches on a byte's value, so the   *)
(* object that exists before the handle is opened holds the bytes          *)
(* 101, 102, ... and the k-th byte handed to Write is k: every byte of the *)
(* model says where it came from.  0 is the zero byte of a fresh buffer.   *)
(***************************************************************************)
EXTENDS Integers, Sequences, FiniteSets, TLC

\* largest object that exists before the handle is opened
MaxObj == 3
\* calls on one handle after OpenFile, when every call may follow every call
MaxOps == 2
\* calls on one handle after OpenFile, when only Write and Sync are called
MaxSeq == 4
\* calls on S3Fs that need no handle (Rename, Remove)
MaxFs == 1
\* most keys in one page of a listing
MaxPage == 2
\* longest argument of one Write, longest buffer of one Read, largest
\* configured minimum part size
MaxLen == 2

VARIABLES
  objects,      \* the bucket: key -> [exists, data]
  uploads,      \* the bucket's multipart uploads, by upload id
  minPartSize,  \* fs.opts.minPartSize
  opened,       \* "none" before OpenFile, "open" with a handle, "failed"
  name,         \* File.name
  flag,         \* File.flag, the set of its bits
  closed,       \* File.closed
  truncated,    \* File.truncated
  body,         \* File.fileUpload.body
  uoff,         \* File.fileUpload.off
  multipart,    \* File.fileUpload.multipart
  doff,         \* File.fileDownload.off
  out,          \* File.fileDownload.out
  other,        \* a second File on the same name: its opened and its fields
  run,          \* the calls in flight on the File, one to a goroutine: where
                \* each stands and its local variables
  orig,         \* history: the object when the handle was opened
  ref,          \* history: the content a file would hold after the calls so far
  nw,           \* history: bytes handed to Write so far
  trace,        \* history: the calls on the handle, in order, with what they
                \* returned and, for the calls that write, their arguments
  issued,       \* history: the kinds of store calls issued for the handle
  ret           \* history: the last call, what it returned and its store calls

vars == <<objects, uploads, minPartSize, opened, name, flag, closed, truncated,
          body, uoff, multipart, doff, out, other, run, orig, ref, nw, trace, issued, ret>>

\* the keys of the bucket; a key is the sequence of its segments between
\* slashes: <<"a">> is "a" and <<".", "a">> is "./a"
Keys == {<<"a">>, <<"b">>, <<".", "a">>}

\* the keys in the order in which a listing returns them
KeyOrder == << <<".", "a">>, <<"a">>, <<"b">> >>

\* the names of the handles that are listed: "", "a" and "."
Prefixes == {<<>>, <<"a">>, <<".">>}

AccessModes == {{}, {"O_WRONLY"}, {"O_RDWR"}}

Flags == {a \cup o : a \in AccessModes, o \in SUBSET {"O_APPEND", "O_CREATE", "O_TRUNC"}}

StoreCalls == {"HeadObject", "GetObject", "PutObject", "CreateMultipartUpload",
               "UploadPart", "CompleteMultipartUpload"}

\* the calls of S3Fs itself
FsCalls == {"HeadObject", "CopyObject", "DeleteObject"}

Mutating == {"PutObject", "CreateMultipartUpload", "UploadPart", "CompleteMultipartUpload"}

Min(a, b) == IF a < b THEN a ELSE b

Take(s, n) == SubSeq(s, 1, Min(n, Len(s)))

Drop(s, n) == SubSeq(s, n + 1, Len(s))

Zeros(n) == [i \in 1..n |-> 0]

OrigData(n) == [i \in 1..n |-> 100 + i]

Fresh(k, n) == [i \in 1..n |-> k + i]

NoObject == [exists |-> FALSE, data |-> <<>>]

Object(d) == [exists |-> TRUE, data |-> d]

NilOut == [state |-> "nil", data |-> <<>>, pos |-> 0]

NoBody == [state |-> "nobody", data |-> <<>>, pos |-> 0]

NilMultipart == [state |-> "nil", id |-> 0, parts |-> <<>>]

\* the goroutines of a program that calls one File from two places
Goroutines == {1, 2}

\* a goroutine that has not called yet
Idle == [pc |-> "idle", b |-> <<>>, tmp |-> <<>>, pn |-> 0, part |-> <<>>]

NoRun == [g \in Goroutines |-> Idle]

\* no second File
NilFile ==
  [opened |-> "none", flag |-> {}, closed |-> FALSE, truncated |-> FALSE,
   body |-> <<>>, uoff |-> 0, multipart |-> NilMultipart, doff |-> 0, out |-> NilOut]

RECURSIVE Concat(_)
Concat(ps) == IF ps = <<>> THEN <<>> ELSE Head(ps).ETag \o Concat(Tail(ps))

\* what a file holds after b is written at pos (a hole reads as zeros)
Overlay(d, pos, b) ==
  LET padded == IF Len(d) < pos THEN d \o Zeros(pos - Len(d)) ELSE d
  IN Take(padded, pos) \o b \o Drop(padded, pos + Len(b))

\* a call on the store, recorded with what it carries and what it returns
Call(m, kind, arg, err) ==
  [m EXCEPT !.calls = Append(@, [kind |-> kind, arg |-> arg, err |-> err])]

Kinds(calls) == {calls[i].kind : i \in 1..Len(calls)}

---------------------------------------------------------------------------------------------------------------------------------------------------
(* The store, as the handle sees it.  A result that is used more than once *)
(* is the parameter of a local operator, so that it is computed once.      *)

\* the bytes the body delivers at once from position pos: up to the next
\* cut, or all that is left
Arrived(len, pos, cuts) ==
  LET ahead == {c \in cuts : c > pos /\ c < len}
  IN IF ahead = {} THEN len - pos
     ELSE (CHOOSE c \in ahead : \A d \in ahead : c <= d) - pos

\* one Read of a GetObject body into a buffer of blen bytes: a read returns
\* what has arrived, never more than the buffer holds, and the end shows
\* with the last bytes (eager) or on the read after them
BodyRead(s, blen, cuts, eager) ==
  LET Got(avail, n) ==
        [n |-> n,
         b |-> SubSeq(s.data, s.pos + 1, s.pos + n),
         err |-> IF avail = 0 \/ (eager /\ n = avail) THEN "EOF" ELSE "nil",
         out |-> [s EXCEPT !.pos = @ + n]]
  IN Got(Len(s.data) - s.pos, Min(blen, Arrived(Len(s.data), s.pos, cuts)))

getObjectOutput(m) ==
  IF "GetObject" \in m.fail
    THEN [m |-> Call(m, "GetObject", <<>>, "StoreErr"), err |-> "StoreErr", out |-> NoBody]
  ELSE IF ~m.objects[m.name].exists
    THEN [m |-> Call(m, "GetObject", <<>>, "NoSuchKey"), err |-> "NoSuchKey", out |-> NoBody]
  ELSE [m |-> Call(m, "GetObject", <<>>, "nil"), err |-> "nil",
        out |-> [state |-> "open", data |-> m.objects[m.name].data, pos |-> 0]]

getHeadObjectOutput(m) ==
  IF "HeadObject" \in m.fail
    THEN [m |-> Call(m, "HeadObject", <<>>, "StoreErr"), err |-> "StoreErr", size |-> 0]
  ELSE IF ~m.objects[m.name].exists
    THEN [m |-> Call(m, "HeadObject", <<>>, "404"), err |-> "404", size |-> 0]
  ELSE [m |-> Call(m, "HeadObject", <<>>, "nil"), err |-> "nil",
        size |-> Len(m.objects[m.name].data)]

Stat(m) ==
  LET Mapped(h) == IF h.err = "404" THEN [h EXCEPT !.err = "ErrNotExist"] ELSE h
  IN Mapped(getHeadObjectOutput(m))

\* a PutObject that stores the body although it returns an error: what C25
\* has to tell from PutObject
PutObjectTorn(m) ==
  [m |-> [Call(m, "PutObject", m.body, IF "PutObject" \in m.fail THEN "StoreErr" ELSE "nil")
            EXCEPT !.objects[m.name] = Object(m.body)],
   err |-> IF "PutObject" \in m.fail THEN "StoreErr" ELSE "nil"]

PutObject(m) ==
  IF "PutObject" \in m.fail
    THEN [m |-> Call(m, "PutObject", m.body, "StoreErr"), err |-> "StoreErr"]
  ELSE [m |-> [Call(m, "PutObject", m.body, "nil") EXCEPT
                 !.objects[m.name] = Object(m.body)],
        err |-> "nil"]

\* a CreateMultipartUpload that fails leaves multipart.out set, with no
\* upload id in it: the requests that need the id are refused before they
\* are sent
CreateMultipartUpload(m) ==
  IF "CreateMultipartUpload" \in m.fail
    THEN [m |-> [Call(m, "CreateMultipartUpload", <<>>, "StoreErr") EXCEPT
                   !.multipart = [state |-> "noid", id |-> 0, parts |-> <<>>]],
          err |-> "StoreErr"]
  ELSE [m |-> [Call(m, "CreateMultipartUpload", <<>>, "nil") EXCEPT
                 !.multipart = [state |-> "active", id |-> Len(m.uploads) + 1,
                                parts |-> <<>>],
                 !.uploads = Append(@, [key |-> m.name, state |-> "active"])],
        err |-> "nil"]

\* an UploadPart whose part is recorded whether or not the store took it:
\* what C20 has to tell from UploadPart
UploadPartRecorded(m, b) ==
  LET Sent(arg) ==
        IF m.multipart.state = "noid" THEN [m |-> m, err |-> "InvalidParameter"]
        ELSE IF "UploadPart" \in m.fail
          THEN [m |-> [Call(m, "UploadPart", arg, "StoreErr") EXCEPT !.multipart.parts =
                         Append(@, [PartNumber |-> arg.PartNumber, ETag |-> b])],
                err |-> "StoreErr"]
        ELSE [m |-> [Call(m, "UploadPart", arg, "nil") EXCEPT !.multipart.parts =
                       Append(@, [PartNumber |-> arg.PartNumber, ETag |-> b])],
              err |-> "nil"]
  IN Sent([PartNumber |-> Len(m.multipart.parts) + 1, Body |-> b])

UploadPart(m, b) ==
  LET Sent(arg) ==
        IF m.multipart.state = "noid" THEN [m |-> m, err |-> "InvalidParameter"]
        ELSE IF "UploadPart" \in m.fail
          THEN [m |-> Call(m, "UploadPart", arg, "StoreErr"), err |-> "StoreErr"]
        ELSE IF m.uploads[m.multipart.id].state # "active"
          THEN [m |-> Call(m, "UploadPart", arg, "NoSuchUpload"), err |-> "NoSuchUpload"]
        ELSE [m |-> [Call(m, "UploadPart", arg, "nil") EXCEPT !.multipart.parts =
                       Append(@, [PartNumber |-> arg.PartNumber, ETag |-> b])],
              err |-> "nil"]
  IN Sent([PartNumber |-> Len(m.multipart.parts) + 1, Body |-> b])

CompleteMultipartUpload(m) ==
  IF m.multipart.state = "noid" THEN [m |-> m, err |-> "InvalidParameter"]
  ELSE IF "CompleteMultipartUpload" \in m.fail
    THEN [m |-> Call(m, "CompleteMultipartUpload", m.multipart.parts, "StoreErr"),
          err |-> "StoreErr"]
  ELSE IF m.uploads[m.multipart.id].state # "active"
    THEN [m |-> Call(m, "CompleteMultipartUpload", m.multipart.parts, "NoSuchUpload"),
          err |-> "NoSuchUpload"]
  ELSE [m |-> [Call(m, "CompleteMultipartUpload", m.multipart.parts, "nil") EXCEPT
                 !.objects[m.name] = Object(Concat(m.multipart.parts)),
                 !.uploads[m.multipart.id].state = "completed"],
        err |-> "nil"]

\* path.Clean on the segments of a path: empty segments and "." are
\* dropped, ".." drops the segment before it
RECURSIVE Clean(_, _)
Clean(segs, acc) ==
  IF segs = <<>> THEN acc
  ELSE IF Head(segs) \in {"", "."} THEN Clean(Tail(segs), acc)
  ELSE IF Head(segs) = ".."
    THEN Clean(Tail(segs), IF acc = <<>> THEN acc ELSE SubSeq(acc, 1, Len(acc) - 1))
  ELSE Clean(Tail(segs), Append(acc, Head(segs)))

\* the key that the CopySource path.Join(bucket, key) names: what follows
\* the bucket in the cleaned path
CopySource(key) == Clean(key, <<>>)

\* CopyObject with the source named by CopySource src
CopyObject(m, src, dst) ==
  IF "CopyObject" \in m.fail
    THEN [m |-> Call(m, "CopyObject", <<src, dst>>, "StoreErr"), err |-> "StoreErr"]
  ELSE IF src \notin Keys \/ ~m.objects[src].exists
    THEN [m |-> Call(m, "CopyObject", <<src, dst>>, "NoSuchKey"), err |-> "NoSuchKey"]
  ELSE [m |-> [Call(m, "CopyObject", <<src, dst>>, "nil") EXCEPT
                 !.objects[dst] = m.objects[src]],
        err |-> "nil"]

DeleteObject(m, key) ==
  IF "DeleteObject" \in m.fail
    THEN [m |-> Call(m, "DeleteObject", key, "StoreErr"), err |-> "StoreErr"]
  ELSE [m |-> [Call(m, "DeleteObject", key, "nil") EXCEPT !.objects[key] = NoObject],
        err |-> "nil"]

----------------------------------------------------------------------------
(* The handlers of File.                                                   *)

\* i bytes of offset are skipped so far
RECURSIVE shiftBodyFromStart(_, _, _, _, _, _)
shiftBodyFromStart(s, i, offset, mps, cuts, eager) ==
  LET Got(r) ==
        IF r.err # "nil" THEN [out |-> r.out, err |-> r.err]
        ELSE shiftBodyFromStart(r.out, i + r.n, offset, mps, cuts, eager)
  IN IF i >= offset THEN [out |-> s, err |-> "nil"]
     ELSE Got(BodyRead(s, IF offset <= mps THEN offset
                          ELSE IF offset - i <= mps THEN offset - i
                          ELSE mps,
                       cuts, eager))

\* f.fileDownload.out.Body.Read(b) and the offset's advance
ReadBody(m, blen) ==
  LET Got(r) ==
        [m |-> [m EXCEPT !.out = r.out, !.doff = @ + r.n],
         n |-> r.n, err |-> r.err, b |-> r.b]
  IN IF m.out.state = "nobody"
       THEN [m |-> m, n |-> 0, err |-> "panic", b |-> <<>>]
     ELSE Got(BodyRead(m.out, blen, m.cuts, m.eager))

\* Read after its check of the flag
ReadStream(m, blen) ==
  LET Shifted(m1, s) ==
        IF s.err # "nil"
          THEN [m |-> [m1 EXCEPT !.out = s.out], n |-> 0, err |-> s.err, b |-> <<>>]
        ELSE ReadBody([m1 EXCEPT !.out = s.out], blen)
      Fetched(g) ==
        IF g.err # "nil"
          THEN [m |-> [g.m EXCEPT !.out = g.out], n |-> 0, err |-> g.err, b |-> <<>>]
        ELSE Shifted(g.m, shiftBodyFromStart(g.out, 0, m.doff, m.mps, m.cuts, m.eager))
  IN IF m.out.state = "nil" THEN Fetched(getObjectOutput(m))
     ELSE ReadBody(m, blen)

\* a Read without the check of the flag: what C10 has to tell from Read
ReadUnchecked(m, blen) == ReadStream(m, blen)

Read(m, blen) ==
  IF "O_WRONLY" \in m.flag
    THEN [m |-> m, n |-> 0, err |-> "ErrWriteOnly", b |-> <<>>]
  ELSE ReadStream(m, blen)

ReadAt(m, blen, off) ==
  LET Got(m1, r) == [m |-> m1, n |-> r.n, err |-> r.err, b |-> r.b]
      Shifted(m1, s) ==
        IF s.err # "nil" THEN [m |-> m1, n |-> 0, err |-> s.err, b |-> <<>>]
        ELSE Got(m1, BodyRead(s.out, blen, m.cuts, m.eager))
      Fetched(g) ==
        IF g.err # "nil" THEN [m |-> g.m, n |-> 0, err |-> g.err, b |-> <<>>]
        ELSE Shifted(g.m, shiftBodyFromStart(g.out, 0, off, m.mps, m.cuts, m.eager))
  IN IF "O_WRONLY" \in m.flag
       THEN [m |-> m, n |-> 0, err |-> "ErrWriteOnly", b |-> <<>>]
     ELSE Fetched(getObjectOutput(m))

\* a Seek that takes any target that is not negative: what C11 has to tell
\* from Seek
SeekNoLimit(m, offset, whence) ==
  LET To(m1, t) ==
        IF t < 0 THEN [m |-> m1, n |-> 0, err |-> "EOF"]
        ELSE [m |-> [m1 EXCEPT !.doff = t, !.out = NilOut], n |-> t, err |-> "nil"]
      Statted(st) ==
        IF st.err # "nil" THEN [m |-> st.m, n |-> 0, err |-> st.err]
        ELSE IF whence = 0 THEN To(st.m, offset)
        ELSE IF whence = 1 THEN To(st.m, st.m.doff + offset)
        ELSE To(st.m, st.size + offset)
  IN Statted(Stat(m))

Seek(m, offset, whence) ==
  LET Eof(m1) == [m |-> m1, n |-> 0, err |-> "EOF"]
      To(m1, t) == [m |-> [m1 EXCEPT !.doff = t, !.out = NilOut], n |-> t, err |-> "nil"]
      Sized(m1, err, size) ==
        IF err # "nil" THEN [m |-> m1, n |-> 0, err |-> err]
        ELSE IF whence = 0 THEN
          IF offset < 0 THEN Eof(m1)
          ELSE IF offset > size THEN Eof(m1)
          ELSE To(m1, offset)
        ELSE IF whence = 1 THEN
          IF offset < 0 /\ m1.doff + offset < 0 THEN Eof(m1)
          ELSE IF offset + m1.doff > size THEN Eof(m1)
          ELSE To(m1, m1.doff + offset)
        ELSE IF whence = 2 THEN
          IF offset > 0 THEN Eof(m1)
          ELSE IF -offset > size THEN Eof(m1)
          ELSE To(m1, size + offset)
        ELSE To(m1, m1.doff)
      Statted(st) == Sized(st.m, st.err, st.size)
  IN Statted(Stat(m))

uploadPart(m, b) ==
  LET Created(c) == IF c.err # "nil" THEN c ELSE UploadPart(c.m, b)
  IN IF m.multipart.state = "nil" THEN Created(CreateMultipartUpload(m))
     ELSE UploadPart(m, b)

\* a loop of uploadBody that flushes a buffer of exactly the minimum part
\* size too: what C12 has to tell from uploadBodyLoop
RECURSIVE uploadBodyLoopFull(_)
uploadBodyLoopFull(m) ==
  LET Uploaded(u) ==
        IF u.err # "nil" THEN u
        ELSE uploadBodyLoopFull([u.m EXCEPT !.body = Drop(@, m.mps)])
  IN IF Len(m.body) >= m.mps THEN Uploaded(uploadPart(m, SubSeq(m.body, 1, m.mps)))
     ELSE [m |-> m, err |-> "nil"]

\* the loop of uploadBody
RECURSIVE uploadBodyLoop(_)
uploadBodyLoop(m) ==
  LET Uploaded(u) ==
        IF u.err # "nil" THEN u
        ELSE uploadBodyLoop([u.m EXCEPT !.body = Drop(@, m.mps)])
  IN IF Len(m.body) > m.mps THEN Uploaded(uploadPart(m, SubSeq(m.body, 1, m.mps)))
     ELSE [m |-> m, err |-> "nil"]

uploadBody(m, b) ==
  uploadBodyLoop([m EXCEPT !.body = @ \o b, !.uoff = @ + Len(b)])

\* the loop of Write that copies the bytes between the two offsets: p is the
\* buffer, off the offset the caller writes at
RECURSIVE gapFill(_, _, _)
gapFill(m, p, off) ==
  LET Uploaded(u, p2) == IF u.err # "nil" THEN u ELSE gapFill(u.m, p2, off)
      Cut(m1, p1) ==
        IF Len(p1) > off - m1.uoff THEN Take(p1, off - m1.uoff) ELSE p1
      Filled(m1, p2) == Uploaded(uploadBody(m1, p2), p2)
      Got(r) ==
        IF r.err # "nil" /\ r.err # "EOF" /\ r.n = 0 THEN [m |-> r.m, err |-> r.err]
        ELSE Filled(r.m, Cut(r.m, r.b \o Drop(p, r.n)))
  IN IF ~(m.uoff < off) THEN [m |-> m, err |-> "nil"]
     ELSE Got(Read(m, Len(p)))

\* Write after its check of the flag and its seek to the end in append mode
WriteBody(m, b) ==
  LET Done(u) ==
        IF u.err # "nil" THEN [m |-> u.m, n |-> 0, err |-> u.err]
        ELSE [m |-> [u.m EXCEPT !.doff = u.m.uoff], n |-> Len(b), err |-> "nil"]
      Gap(g) ==
        IF g.err # "nil" THEN [m |-> g.m, n |-> 0, err |-> g.err]
        ELSE Done(uploadBody(g.m, b))
      Sought(sk) ==
        IF sk.err # "nil" THEN [m |-> sk.m, err |-> sk.err]
        ELSE gapFill(sk.m, Zeros(m.mps), m.doff)
  IN IF m.uoff < m.doff THEN Gap(Sought(Seek(m, m.uoff, 0)))
     ELSE Done(uploadBody(m, b))

Write(m, b) ==
  LET Sought(sk) ==
        IF sk.err # "nil" THEN [m |-> sk.m, n |-> 0, err |-> sk.err]
        ELSE WriteBody(sk.m, b)
      Statted(st) ==
        IF st.err # "nil" /\ ~(st.err = "ErrNotExist" /\ "O_CREATE" \in m.flag)
          THEN [m |-> st.m, n |-> 0, err |-> st.err]
        ELSE IF st.err = "nil" THEN Sought(Seek(st.m, st.size, 0))
        ELSE WriteBody(st.m, b)
  IN IF m.flag = {} THEN [m |-> m, n |-> 0, err |-> "ErrReadOnly"]
     ELSE IF "O_APPEND" \in m.flag THEN Statted(Stat(m))
     ELSE WriteBody(m, b)

WriteAt(m, b, off) ==
  LET Sought(sk) ==
        IF sk.err # "nil" THEN [m |-> sk.m, n |-> 0, err |-> sk.err]
        ELSE Write(sk.m, b)
  IN IF m.flag = {} THEN [m |-> m, n |-> 0, err |-> "ErrReadOnly"]
     ELSE Sought(Seek(m, off, 0))

\* the loop of Sync that copies the rest of the object
RECURSIVE tailCopy(_)
tailCopy(m) ==
  LET Uploaded(u) == IF u.err # "nil" THEN u ELSE tailCopy(u.m)
      Got(r) ==
        IF r.err = "EOF" THEN uploadBody(r.m, r.b)
        ELSE IF r.err # "nil" THEN [m |-> r.m, err |-> r.err]
        ELSE Uploaded(uploadBody(r.m, r.b))
  IN Got(Read(m, m.mps))

\* an end of Sync that completes the multipart upload without the buffered
\* bytes: what C1 has to tell from Finalize
FinalizeNoTail(m) ==
  IF m.multipart.state # "nil" THEN CompleteMultipartUpload(m) ELSE PutObject(m)

\* an end of Sync that returns nil when the multipart upload was never
\* created: what C13 has to tell from Finalize
FinalizeUncreated(m) ==
  LET Flushed(u) == IF u.err # "nil" THEN u ELSE CompleteMultipartUpload(u.m)
  IN IF m.multipart.state = "noid" THEN [m |-> m, err |-> "nil"]
     ELSE IF m.multipart.state = "active" THEN
       IF Len(m.body) > 0 THEN Flushed(uploadPart(m, m.body))
       ELSE CompleteMultipartUpload(m)
     ELSE PutObject(m)

\* the end of Sync: the multipart upload is completed, or the body is put
Finalize(m) ==
  LET Flushed(u) == IF u.err # "nil" THEN u ELSE CompleteMultipartUpload(u.m)
  IN IF m.multipart.state # "nil" THEN
       IF Len(m.body) > 0 THEN Flushed(uploadPart(m, m.body))
       ELSE CompleteMultipartUpload(m)
     ELSE PutObject(m)

Sync(m) ==
  LET Copied(t) == IF t.err # "nil" THEN t ELSE Finalize(t.m)
      Sought(sk) ==
        IF sk.err # "nil" THEN [m |-> sk.m, err |-> sk.err]
        ELSE Copied(tailCopy(sk.m))
      Statted(st) ==
        IF st.err # "nil" /\ st.err # "ErrNotExist" THEN [m |-> st.m, err |-> st.err]
        ELSE IF st.err = "nil" /\ ~m.truncated /\ m.uoff < st.size
          THEN Sought(Seek(st.m, m.uoff, 0))
        ELSE Finalize(st.m)
  IN IF m.flag = {} THEN [m |-> m, err |-> "ErrReadOnly"]
     ELSE Statted(Stat(m))

resetBuffers(m) ==
  [m EXCEPT !.out = NilOut, !.doff = 0, !.body = <<>>, !.uoff = 0,
            !.multipart = NilMultipart]

Truncate(m, size) ==
  LET Sought(sk) == [m |-> sk.m, err |-> sk.err]
  IN IF m.flag = {} THEN [m |-> m, err |-> "ErrReadOnly"]
     ELSE IF "O_APPEND" \in m.flag THEN [m |-> m, err |-> "ErrAppendOnly"]
     ELSE Sought(Seek([resetBuffers(m) EXCEPT !.truncated = TRUE], size, 0))

Close(m) ==
  IF m.closed THEN [m |-> m, err |-> "ErrClosed"]
  ELSE [m |-> [resetBuffers(m) EXCEPT !.closed = TRUE], err |-> "nil"]

\* the File that OpenFile builds before it probes
NewFile(m, fl) ==
  [m EXCEPT !.flag = fl, !.closed = FALSE, !.truncated = FALSE,
            !.body = <<>>, !.uoff = 0, !.multipart = NilMultipart,
            !.doff = 0, !.out = NilOut]

\* an OpenFile that never probes the object: what C7 has to tell from OpenFile
OpenFileNoProbe(m, fl) ==
  IF "O_TRUNC" \in fl THEN Truncate(NewFile(m, fl), 0)
  ELSE [m |-> NewFile(m, fl), err |-> "nil"]

OpenFile(m, fl) ==
  LET Statted(st) == [m |-> st.m, err |-> st.err]
      Truncated(t) ==
        IF t.err # "nil" THEN t
        ELSE IF "O_CREATE" \notin fl THEN Statted(Stat(t.m))
        ELSE t
  IN IF "O_TRUNC" \in fl THEN Truncated(Truncate(NewFile(m, fl), 0))
     ELSE Truncated([m |-> NewFile(m, fl), err |-> "nil"])

Open(m, nm) == OpenFile([m EXCEPT !.name = nm], {})

\* Remove without the check that the object exists
RemoveUnchecked(m, nm) == DeleteObject(m, nm)

Remove(m, nm) ==
  LET Opened(o) == IF o.err # "nil" THEN o ELSE DeleteObject(o.m, nm)
  IN Opened(Open(m, nm))

Rename(m, oldname, newname) ==
  LET Copied(c) == IF c.err # "nil" THEN c ELSE DeleteObject(c.m, oldname)
  IN Copied(CopyObject(m, CopySource(oldname), newname))

\* strings.HasPrefix on keys whose segments are single characters
HasPrefix(key, prefix) ==
  Len(prefix) <= Len(key) /\ SubSeq(key, 1, Len(prefix)) = prefix

\* what ListObjectsV2 with Prefix prefix lists, in the order of the keys
Listing(objs, prefix) ==
  LET Listed(k) == objs[k].exists /\ HasPrefix(k, prefix)
  IN [i \in 1..Len(SelectSeq(KeyOrder, Listed)) |->
        [Key |-> SelectSeq(KeyOrder, Listed)[i],
         Size |-> Len(objs[SelectSeq(KeyOrder, Listed)[i]].data)]]

\* the callback of Readdir on the entries of one page, from entry i on:
\* stop is what makes it return false before the page ends
RECURSIVE PageFn(_, _, _, _, _)
PageFn(fi, count, page, i, n) ==
  IF i > Len(page) THEN [fi |-> fi, count |-> count, stop |-> FALSE]
  ELSE IF count + 1 > n /\ n > 0
    THEN [fi |-> Append(fi, page[i]), count |-> count + 1, stop |-> TRUE]
  ELSE PageFn(Append(fi, page[i]), count + 1, page, i + 1, n)

\* ListObjectsV2Pages with the callback of Readdir: rest is what the store
\* has still to list, in pages of ps keys
RECURSIVE ListObjectsV2Pages(_, _, _, _, _, _)
ListObjectsV2Pages(m, rest, fi, count, n, ps) ==
  LET Paged(r, c) ==
        IF r.stop \/ Len(rest) <= ps THEN [m |-> c, fi |-> r.fi, err |-> "nil"]
        ELSE ListObjectsV2Pages(c, Drop(rest, ps), r.fi, r.count, n, ps)
  IN IF "ListObjectsV2" \in m.fail
       THEN [m |-> Call(m, "ListObjectsV2", Len(m.calls) + 1, "StoreErr"),
             fi |-> fi, err |-> "StoreErr"]
     ELSE Paged(PageFn(fi, count, Take(rest, ps), 1, n),
                Call(m, "ListObjectsV2", Len(m.calls) + 1, "nil"))

Readdir(m, n, ps) == ListObjectsV2Pages(m, Listing(m.objects, m.name), <<>>, 0, n, ps)

\* a program reads to the end of the stream: Read until it returns io.EOF
RECURSIVE ReadToEnd(_, _, _)
ReadToEnd(m, blen, acc) ==
  LET Got(r) ==
        IF r.err = "EOF" THEN [err |-> "nil", data |-> acc \o r.b]
        ELSE IF r.err # "nil" THEN [err |-> r.err, data |-> acc \o r.b]
        ELSE ReadToEnd(r.m, blen, acc \o r.b)
  IN Got(Read(m, blen))

\* a program reopens the path read-only and reads to the end of the stream
ReadBack(m, blen) ==
  LET Opened(o) ==
        IF o.err # "nil" THEN [err |-> o.err, data |-> <<>>]
        ELSE ReadToEnd(o.m, blen, <<>>)
  IN Opened(OpenFile(m, {}))

----------------------------------------------------------------------------
(* The calls a program makes on the handle.                                *)

\* what one call meets: how the store delivers a body, and which of its
\* calls fail during this call
Envs == [cuts : SUBSET (1..(MaxObj - 1)), eager : BOOLEAN, fail : {{}}]

\* what one call meets when the store may fail: the calls of one kind fail
\* during the call, or none does
EnvsFail ==
  [cuts : {{}}, eager : {FALSE}, fail : {{}} \cup {{k} : k \in StoreCalls}]

\* what one call of S3Fs meets: the calls of one kind fail, or none does
EnvsFs ==
  [cuts : {{}}, eager : {FALSE}, fail : {{}} \cup {{k} : k \in FsCalls}]

\* for the handlers that read no body
Quiet == [cuts |-> {}, eager |-> FALSE, fail |-> {}]

\* Seek's arguments: from the start, from the current offset, from the end
SeekArgs ==
  {<<o, 0>> : o \in -1..(MaxObj + 1)} \cup {<<o, 1>> : o \in -1..1}
    \cup {<<o, 2>> : o \in -(MaxObj + 1)..1}

Machine(e) ==
  [name |-> name, flag |-> flag, closed |-> closed, truncated |-> truncated,
   body |-> body, uoff |-> uoff, multipart |-> multipart, doff |-> doff, out |-> out,
   objects |-> objects, uploads |-> uploads, mps |-> minPartSize,
   cuts |-> e.cuts, eager |-> e.eager, fail |-> e.fail, calls |-> <<>>]

Store(m) ==
  /\ objects' = m.objects
  /\ uploads' = m.uploads
  /\ issued' = issued \cup Kinds(m.calls)
  /\ UNCHANGED <<minPartSize, name, orig>>

Handle(m) ==
  /\ flag' = m.flag
  /\ closed' = m.closed
  /\ truncated' = m.truncated
  /\ body' = m.body
  /\ uoff' = m.uoff
  /\ multipart' = m.multipart
  /\ doff' = m.doff
  /\ out' = m.out
  /\ other' = other
  /\ run' = run

Returned(op, r, n, b) ==
  ret' = [op |-> op, err |-> r.err, n |-> n, b |-> b,
          calls |-> r.m.calls, wasClosed |-> closed]

CanCall(lim) == opened = "open" /\ Len(trace) < lim

Calling(op, args, r) ==
  /\ trace' = Append(trace, [op |-> op, args |-> args, err |-> r.err])
  /\ opened' = opened

Init ==
  /\ \E d \in {NoObject} \cup {Object(OrigData(n)) : n \in 0..MaxObj} :
       /\ objects = [k \in Keys |-> IF k = <<"a">> THEN d ELSE NoObject]
       /\ orig = d
  /\ uploads = <<>>
  /\ minPartSize \in 1..MaxLen
  /\ opened = "none"
  /\ name = <<"a">>
  /\ flag = {}
  /\ closed = FALSE
  /\ truncated = FALSE
  /\ body = <<>>
  /\ uoff = 0
  /\ multipart = NilMultipart
  /\ doff = 0
  /\ out = NilOut
  /\ other = NilFile
  /\ run = NoRun
  /\ ref = <<>>
  /\ nw = 0
  /\ trace = <<>>
  /\ issued = {}
  /\ ret = [op |-> "none", err |-> "nil", n |-> 0, b |-> <<>>,
            calls |-> <<>>, wasClosed |-> FALSE]

OpOpenFile ==
  /\ opened = "none"
  /\ \E fl \in Flags :
       LET Done(r) ==
             /\ Store(r.m)
             /\ IF r.err = "nil"
                  THEN Handle(r.m) /\ opened' = "open"
                  ELSE /\ Handle([Machine(Quiet) EXCEPT !.flag = fl])
                       /\ opened' = "failed"
             /\ ref' = IF "O_TRUNC" \in fl THEN <<>> ELSE orig.data
             /\ Returned("OpenFile", r, 0, <<>>)
             /\ UNCHANGED <<nw, trace>>
       IN Done(OpenFile(Machine(Quiet), fl))

ReadIn(lim, envs) ==
  /\ CanCall(lim)
  /\ \E blen \in 1..MaxLen, e \in envs :
       LET Done(r) ==
             /\ Store(r.m) /\ Handle(r.m) /\ Calling("Read", <<>>, r)
             /\ Returned("Read", r, r.n, r.b)
             /\ UNCHANGED <<ref, nw>>
       IN Done(Read(Machine(e), blen))

OpRead(lim) == ReadIn(lim, Envs)

ReadAtIn(lim, envs) ==
  /\ CanCall(lim)
  /\ \E blen \in 1..MaxLen, off \in -1..(MaxObj + 1), e \in envs :
       LET Done(r) ==
             /\ Store(r.m) /\ Handle(r.m) /\ Calling("ReadAt", <<>>, r)
             /\ Returned("ReadAt", r, r.n, r.b)
             /\ UNCHANGED <<ref, nw>>
       IN Done(ReadAt(Machine(e), blen, off))

OpReadAt(lim) == ReadAtIn(lim, Envs)

SeekIn(lim, envs) ==
  /\ CanCall(lim)
  /\ \E a \in SeekArgs, e \in envs :
       LET Done(r) ==
             /\ Store(r.m) /\ Handle(r.m) /\ Calling("Seek", <<>>, r)
             /\ Returned("Seek", r, r.n, <<>>)
             /\ UNCHANGED <<ref, nw>>
       IN Done(Seek(Machine(e), a[1], a[2]))

OpSeek(lim) == SeekIn(lim, {Quiet})

WriteIn(lim, envs) ==
  /\ CanCall(lim)
  /\ \E len \in 1..MaxLen, e \in envs :
       LET Done(r, b) ==
             /\ Store(r.m) /\ Handle(r.m) /\ Calling("Write", <<len>>, r)
             /\ Returned("Write", r, r.n, b)
             /\ nw' = nw + len
             /\ ref' = IF r.err # "nil" THEN ref
                       ELSE IF "O_APPEND" \in flag THEN ref \o b
                       ELSE Overlay(ref, doff, b)
       IN Done(Write(Machine(e), Fresh(nw, len)), Fresh(nw, len))

OpWrite(lim) == WriteIn(lim, Envs)

WriteAtIn(lim, envs) ==
  /\ CanCall(lim)
  /\ \E len \in 1..MaxLen, off \in -1..(MaxObj + 1), e \in envs :
       LET Done(r, b) ==
             /\ Store(r.m) /\ Handle(r.m) /\ Calling("WriteAt", <<len, off>>, r)
             /\ Returned("WriteAt", r, r.n, b)
             /\ nw' = nw + len
             /\ ref' = IF r.err # "nil" THEN ref
                       ELSE IF "O_APPEND" \in flag THEN ref \o b
                       ELSE Overlay(ref, off, b)
       IN Done(WriteAt(Machine(e), Fresh(nw, len), off), Fresh(nw, len))

OpWriteAt(lim) == WriteAtIn(lim, Envs)

SyncIn(lim, envs) ==
  /\ CanCall(lim)
  /\ \E e \in envs :
       LET Done(r) ==
             /\ Store(r.m) /\ Handle(r.m) /\ Calling("Sync", <<>>, r)
             /\ Returned("Sync", r, 0, <<>>)
             /\ UNCHANGED <<ref, nw>>
       IN Done(Sync(Machine(e)))

OpSync(lim) == SyncIn(lim, Envs)

TruncateIn(lim, envs) ==
  /\ CanCall(lim)
  /\ \E size \in 0..(MaxObj + 1), e \in envs :
       LET Done(r) ==
             /\ Store(r.m) /\ Handle(r.m) /\ Calling("Truncate", <<size>>, r)
             /\ Returned("Truncate", r, 0, <<>>)
             /\ ref' = IF r.err # "nil" THEN ref ELSE Take(ref \o Zeros(size), size)
             /\ UNCHANGED nw
       IN Done(Truncate(Machine(e), size))

OpTruncate(lim) == TruncateIn(lim, {Quiet})

OpClose(lim) ==
  /\ CanCall(lim)
  /\ LET Done(r) ==
           /\ Store(r.m) /\ Handle(r.m) /\ Calling("Close", <<>>, r)
           /\ Returned("Close", r, 0, <<>>)
           /\ UNCHANGED <<ref, nw>>
     IN Done(Close(Machine(Quiet)))

\* the calls on S3Fs that need no handle
CanCallFs(lim) == opened = "none" /\ Len(trace) < lim

CallingFs(op, args, r) ==
  /\ trace' = Append(trace, [op |-> op, args |-> args, err |-> r.err])
  /\ objects' = r.m.objects
  /\ issued' = issued \cup Kinds(r.m.calls)
  /\ Returned(op, r, 0, <<>>)
  /\ UNCHANGED <<uploads, minPartSize, opened, name, flag, closed, truncated, body,
                 uoff, multipart, doff, out, other, run, orig, ref, nw>>

OpRename(lim) ==
  /\ CanCallFs(lim)
  /\ \E oldname \in Keys, newname \in Keys, e \in EnvsFs :
       LET Done(r) == CallingFs("Rename", <<oldname, newname>>, r)
       IN Done(Rename(Machine(e), oldname, newname))

OpRemove(lim) ==
  /\ CanCallFs(lim)
  /\ \E nm \in Keys, e \in EnvsFs :
       LET Done(r) == CallingFs("Remove", <<nm>>, r)
       IN Done(Remove(Machine(e), nm))

OpReaddir(lim) ==
  /\ CanCall(lim)
  /\ \E n \in -1..Len(KeyOrder), ps \in 1..MaxPage, fl \in {{}, {"ListObjectsV2"}} :
       LET Done(r) ==
             /\ Store(r.m) /\ Handle(r.m) /\ Calling("Readdir", <<n, ps>>, r)
             /\ Returned("Readdir", r, Len(r.fi), r.fi)
             /\ UNCHANGED <<ref, nw>>
       IN Done(Readdir(Machine([Quiet EXCEPT !.fail = fl]), n, ps))

Next ==
  \/ OpOpenFile
  \/ OpRead(MaxOps)
  \/ OpReadAt(MaxOps)
  \/ OpSeek(MaxOps)
  \/ OpWrite(MaxOps)
  \/ OpWriteAt(MaxOps)
  \/ OpSync(MaxOps)
  \/ OpTruncate(MaxOps)
  \/ OpClose(MaxOps)

Spec == Init /\ [][Next]_vars

\* a program that only writes and syncs
NextWrite ==
  \/ OpOpenFile
  \/ OpWrite(MaxSeq)
  \/ OpSync(MaxSeq)

SpecWrite == Init /\ [][NextWrite]_vars

\* a program that only opens
SpecOpen == Init /\ [][OpOpenFile]_vars

\* a program that only writes and syncs, on a store whose calls may fail
OpWriteFail == WriteIn(MaxOps + 1, EnvsFail)

OpSyncFail == SyncIn(MaxOps + 1, EnvsFail)

NextFail ==
  \/ OpOpenFile
  \/ OpWriteFail
  \/ OpSyncFail

SpecFail == Init /\ [][NextFail]_vars

\* a program that calls every handler, against a store that may fail
NextAll ==
  \/ OpOpenFile
  \/ ReadIn(MaxOps, EnvsFail)
  \/ ReadAtIn(MaxOps, EnvsFail)
  \/ SeekIn(MaxOps, EnvsFail)
  \/ WriteIn(MaxOps, EnvsFail)
  \/ WriteAtIn(MaxOps, EnvsFail)
  \/ SyncIn(MaxOps, EnvsFail)
  \/ TruncateIn(MaxOps, EnvsFail)
  \/ OpClose(MaxOps)

SpecAll == Init /\ [][NextAll]_vars

\* a program that writes, writes at offsets and syncs, on a store whose
\* bodies arrive whole
NextWriteAt ==
  \/ OpOpenFile
  \/ WriteIn(MaxOps + 1, {Quiet})
  \/ WriteAtIn(MaxOps + 1, {Quiet})
  \/ SyncIn(MaxOps + 1, {Quiet})

SpecWriteAt == Init /\ [][NextWriteAt]_vars

\* a bucket with any of the keys present, before any call
InitFs ==
  /\ objects \in [Keys -> {NoObject} \cup {Object(OrigData(n)) : n \in 0..MaxObj}]
  /\ orig = objects[<<"a">>]
  /\ uploads = <<>>
  /\ minPartSize = MaxLen
  /\ opened = "none"
  /\ name = <<"a">>
  /\ flag = {}
  /\ closed = FALSE
  /\ truncated = FALSE
  /\ body = <<>>
  /\ uoff = 0
  /\ multipart = NilMultipart
  /\ doff = 0
  /\ out = NilOut
  /\ other = NilFile
  /\ run = NoRun
  /\ ref = <<>>
  /\ nw = 0
  /\ trace = <<>>
  /\ issued = {}
  /\ ret = [op |-> "none", err |-> "nil", n |-> 0, b |-> <<>>,
            calls |-> <<>>, wasClosed |-> FALSE]

\* a program that renames and removes
NextFs ==
  \/ OpRename(MaxFs)
  \/ OpRemove(MaxFs)

SpecFs == InitFs /\ [][NextFs]_vars

\* the flags of the two handles of one program
TwoFlags ==
  {{"O_WRONLY"}, {"O_WRONLY", "O_CREATE"}, {"O_RDWR", "O_CREATE"},
   {"O_WRONLY", "O_CREATE", "O_TRUNC"}}

\* handle 1 is the File of the handle variables, handle 2 is other
OpenedOf(h) == IF h = 1 THEN opened ELSE other.opened

MachineOf(h, e) ==
  IF h = 1 THEN Machine(e)
  ELSE [Machine(e) EXCEPT !.flag = other.flag, !.closed = other.closed,
                          !.truncated = other.truncated, !.body = other.body,
                          !.uoff = other.uoff, !.multipart = other.multipart,
                          !.doff = other.doff, !.out = other.out]

HandleOf(h, m, op) ==
  IF h = 1 THEN Handle(m) /\ opened' = op
  ELSE /\ other' = [opened |-> op, flag |-> m.flag, closed |-> m.closed,
                    truncated |-> m.truncated, body |-> m.body, uoff |-> m.uoff,
                    multipart |-> m.multipart, doff |-> m.doff, out |-> m.out]
       /\ UNCHANGED <<opened, flag, closed, truncated, body, uoff, multipart, doff, out,
                      run>>

\* the calls of handle h so far
CallsOf(h, op) == {i \in 1..Len(trace) : trace[i].op = op /\ trace[i].args[2] = h}

OpOpenTwo ==
  \E h \in {1, 2}, fl \in TwoFlags :
    /\ OpenedOf(h) = "none"
    /\ LET Done(r) ==
             /\ Store(r.m)
             /\ HandleOf(h, IF r.err = "nil" THEN r.m
                            ELSE [MachineOf(h, Quiet) EXCEPT !.flag = fl],
                         IF r.err = "nil" THEN "open" ELSE "failed")
             /\ Returned("OpenFile", r, 0, <<>>)
             /\ UNCHANGED <<ref, nw, trace>>
       IN Done(OpenFile(MachineOf(h, Quiet), fl))

\* a handle writes until it syncs
OpWriteTwo(lim) ==
  \E h \in {1, 2}, len \in 1..MaxLen :
    /\ OpenedOf(h) = "open" /\ Len(trace) < lim /\ CallsOf(h, "Sync") = {}
    /\ LET Done(r, b) ==
             /\ Store(r.m) /\ HandleOf(h, r.m, "open")
             /\ trace' = Append(trace, [op |-> "Write", args |-> <<len, h>>, err |-> r.err])
             /\ Returned("Write", r, r.n, b)
             /\ nw' = nw + len
             /\ UNCHANGED ref
       IN Done(Write(MachineOf(h, Quiet), Fresh(nw, len)), Fresh(nw, len))

\* a handle that has written syncs once
OpSyncTwo(lim) ==
  \E h \in {1, 2} :
    /\ OpenedOf(h) = "open" /\ Len(trace) < lim
    /\ CallsOf(h, "Write") # {} /\ CallsOf(h, "Sync") = {}
    /\ LET Done(r) ==
             /\ Store(r.m) /\ HandleOf(h, r.m, "open")
             /\ trace' = Append(trace, [op |-> "Sync", args |-> <<0, h>>, err |-> r.err])
             /\ Returned("Sync", r, 0, <<>>)
             /\ UNCHANGED <<ref, nw>>
       IN Done(Sync(MachineOf(h, Quiet)))

\* a program with two handles on one path, each writing and then syncing
NextTwo ==
  \/ OpOpenTwo
  \/ OpWriteTwo(MaxSeq)
  \/ OpSyncTwo(MaxSeq)

SpecTwo == Init /\ [][NextTwo]_vars

----------------------------------------------------------------------------
(* Two calls of Write in flight on one File. No method of File locks the   *)
(* embedded mutex, so the statements of the two calls interleave; a step   *)
(* is one read or one write of a field of the File, or one store call.     *)

\* multipart set to an empty fileUploadMultipart, before CreateMultipartUpload
\* has returned: out is nil
PendingMultipart == [state |-> "pending", id |-> 0, parts |-> <<>>]

\* the fields a step may write
Now ==
  [body |-> body, uoff |-> uoff, multipart |-> multipart, doff |-> doff,
   uploads |-> uploads, calls |-> <<>>, nw |-> nw, trace |-> trace]

At(g, pc) ==
  /\ opened = "open"
  /\ run[g].pc = pc
  /\ \A o \in Goroutines : run[o].pc # "panic"

\* goroutine g goes on as r, the step leaves the fields as h
RaceStep(g, r, h) ==
  /\ run' = [run EXCEPT ![g] = r]
  /\ body' = h.body
  /\ uoff' = h.uoff
  /\ multipart' = h.multipart
  /\ doff' = h.doff
  /\ uploads' = h.uploads
  /\ nw' = h.nw
  /\ trace' = h.trace
  /\ ret' = [ret EXCEPT !.op = "Write", !.calls = @ \o h.calls]
  /\ issued' = issued \cup Kinds(h.calls)
  /\ UNCHANGED <<objects, minPartSize, opened, name, flag, closed, truncated, out,
                 other, orig, ref>>

\* Write is called: the flag is not read-only and has no O_APPEND, and the
\* upload offset is not behind the download offset
RaceCall(g) ==
  /\ At(g, "idle")
  /\ flag # {} /\ "O_APPEND" \notin flag /\ uoff >= doff
  /\ \E len \in 1..MaxLen :
       RaceStep(g, [run[g] EXCEPT !.pc = "readBody", !.b = Fresh(nw, len)],
                [Now EXCEPT !.nw = nw + len])

\* uploadBody: append(f.fileUpload.body, b...) reads the body
RaceReadBody(g) ==
  /\ At(g, "readBody")
  /\ RaceStep(g, [run[g] EXCEPT !.pc = "writeBody", !.tmp = body], Now)

\* uploadBody: f.fileUpload.body = the appended slice
RaceWriteBody(g) ==
  /\ At(g, "writeBody")
  /\ RaceStep(g, [run[g] EXCEPT !.pc = "addOff", !.tmp = <<>>],
              [Now EXCEPT !.body = run[g].tmp \o run[g].b])

\* uploadBody: f.fileUpload.off += len(b)
RaceAddOff(g) ==
  /\ At(g, "addOff")
  /\ RaceStep(g, [run[g] EXCEPT !.pc = "loop"], [Now EXCEPT !.uoff = uoff + Len(run[g].b)])

\* uploadBody: the test of the loop, and the slice handed to uploadPart
RaceLoop(g) ==
  /\ At(g, "loop")
  /\ IF Len(body) > minPartSize
       THEN RaceStep(g, [run[g] EXCEPT !.pc = "multipart", !.part = Take(body, minPartSize)],
                     Now)
       ELSE RaceStep(g, [run[g] EXCEPT !.pc = "setOff"], Now)

\* uploadPart: if multipart == nil { multipart = &fileUploadMultipart{} }
RaceMultipart(g) ==
  /\ At(g, "multipart")
  /\ IF multipart.state = "nil"
       THEN RaceStep(g, [run[g] EXCEPT !.pc = "create"],
                     [Now EXCEPT !.multipart = PendingMultipart])
       ELSE RaceStep(g, [run[g] EXCEPT !.pc = "number"], Now)

\* uploadPart: multipart.out, err = CreateMultipartUpload(in)
RaceCreate(g) ==
  /\ At(g, "create")
  /\ RaceStep(g, [run[g] EXCEPT !.pc = "makeParts"],
              [Now EXCEPT !.multipart = [state |-> "active", id |-> Len(uploads) + 1,
                                         parts |-> multipart.parts],
                          !.uploads = Append(@, [key |-> name, state |-> "active"]),
                          !.calls = <<[kind |-> "CreateMultipartUpload", arg |-> <<>>,
                                       err |-> "nil"]>>])

\* uploadPart: multipart.parts = make([]*s3.CompletedPart, 0)
RaceMakeParts(g) ==
  /\ At(g, "makeParts")
  /\ RaceStep(g, [run[g] EXCEPT !.pc = "number"], [Now EXCEPT !.multipart.parts = <<>>])

\* uploadPart: partNumber := len(parts) + 1, and the UploadPartInput built
\* from the fields of multipart.out, a nil pointer while the session is
\* being created
RaceNumber(g) ==
  /\ At(g, "number")
  /\ IF multipart.state = "pending"
       THEN RaceStep(g, [run[g] EXCEPT !.pc = "panic"], Now)
       ELSE RaceStep(g, [run[g] EXCEPT !.pc = "upload", !.pn = Len(multipart.parts) + 1],
                     Now)

\* uploadPart: res, err := UploadPart(pi)
RaceUpload(g) ==
  /\ At(g, "upload")
  /\ RaceStep(g, [run[g] EXCEPT !.pc = "appendPart"],
              [Now EXCEPT !.calls = <<[kind |-> "UploadPart",
                                       arg |-> [PartNumber |-> run[g].pn,
                                                Body |-> run[g].part],
                                       err |-> "nil"]>>])

\* uploadPart: multipart.parts = append(multipart.parts, the completed part)
RaceAppendPart(g) ==
  /\ At(g, "appendPart")
  /\ RaceStep(g, [run[g] EXCEPT !.pc = "dropBody"],
              [Now EXCEPT !.multipart.parts =
                            Append(@, [PartNumber |-> run[g].pn, ETag |-> run[g].part])])

\* uploadBody: f.fileUpload.body = f.fileUpload.body[minPartSize:]
RaceDropBody(g) ==
  /\ At(g, "dropBody")
  /\ RaceStep(g, [run[g] EXCEPT !.pc = "loop", !.pn = 0, !.part = <<>>],
              [Now EXCEPT !.body = Drop(body, minPartSize)])

\* Write: f.fileDownload.off = f.fileUpload.off, and the return
RaceSetOff(g) ==
  /\ At(g, "setOff")
  /\ RaceStep(g, [run[g] EXCEPT !.pc = "done"],
              [Now EXCEPT !.doff = uoff,
                          !.trace = Append(trace, [op |-> "Write",
                                                   args |-> <<Len(run[g].b), g>>,
                                                   err |-> "nil"])])

\* a File from OpenFile(name, O_WRONLY|O_CREATE), which makes no store call
InitRace ==
  /\ \E d \in {NoObject} \cup {Object(OrigData(n)) : n \in 0..MaxObj} :
       /\ objects = [k \in Keys |-> IF k = <<"a">> THEN d ELSE NoObject]
       /\ orig = d
  /\ uploads = <<>>
  /\ minPartSize \in 1..MaxLen
  /\ opened = "open"
  /\ name = <<"a">>
  /\ flag = {"O_WRONLY", "O_CREATE"}
  /\ closed = FALSE
  /\ truncated = FALSE
  /\ body = <<>>
  /\ uoff = 0
  /\ multipart = NilMultipart
  /\ doff = 0
  /\ out = NilOut
  /\ other = NilFile
  /\ run = NoRun
  /\ ref = orig.data
  /\ nw = 0
  /\ trace = <<>>
  /\ issued = {}
  /\ ret = [op |-> "OpenFile", err |-> "nil", n |-> 0, b |-> <<>>,
            calls |-> <<>>, wasClosed |-> FALSE]

\* a program that calls Write on one File from two goroutines
NextRace ==
  \E g \in Goroutines :
    \/ RaceCall(g)
    \/ RaceReadBody(g)
    \/ RaceWriteBody(g)
    \/ RaceAddOff(g)
    \/ RaceLoop(g)
    \/ RaceMultipart(g)
    \/ RaceCreate(g)
    \/ RaceMakeParts(g)
    \/ RaceNumber(g)
    \/ RaceUpload(g)
    \/ RaceAppendPart(g)
    \/ RaceDropBody(g)
    \/ RaceSetOff(g)

SpecRace == InitRace /\ [][NextRace]_vars

\* a handle opened with O_CREATE on the name of a directory, in any bucket
InitDir ==
  /\ objects \in [Keys -> {NoObject} \cup {Object(OrigData(n)) : n \in 0..MaxObj}]
  /\ orig = NoObject
  /\ uploads = <<>>
  /\ minPartSize = MaxLen
  /\ opened = "open"
  /\ name \in Prefixes
  /\ flag = {"O_CREATE"}
  /\ closed = FALSE
  /\ truncated = FALSE
  /\ body = <<>>
  /\ uoff = 0
  /\ multipart = NilMultipart
  /\ doff = 0
  /\ out = NilOut
  /\ other = NilFile
  /\ run = NoRun
  /\ ref = <<>>
  /\ nw = 0
  /\ trace = <<>>
  /\ issued = {}
  /\ ret = [op |-> "OpenFile", err |-> "nil", n |-> 0, b |-> <<>>,
            calls |-> <<>>, wasClosed |-> FALSE]

\* a program that lists a directory
NextDir == OpReaddir(MaxFs)

SpecDir == InitDir /\ [][NextDir]_vars

\* a program that writes at most MaxOps times and seeks
NextSeek ==
  \/ OpOpenFile
  \/ OpSeek(MaxSeq)
  \/ OpWrite(MaxOps)

SpecSeek == Init /\ [][NextSeek]_vars

----------------------------------------------------------------------------
(* The claims.                                                             *)

Writable == "O_WRONLY" \in flag \/ "O_RDWR" \in flag

Ops == [i \in 1..Len(trace) |-> trace[i].op]

AllNil == \A i \in 1..Len(trace) : trace[i].err = "nil"

\* the calls so far are one or more of the calls in ops, then one last
CallsThen(ops, last) ==
  /\ Len(trace) >= 2
  /\ trace[Len(trace)].op = last
  /\ \A i \in 1..(Len(trace) - 1) : trace[i].op \in ops

\* every program reading the stored object back gets exactly d
ReadsBack(d) ==
  \A e \in Envs, blen \in 1..MaxLen :
    ReadBack(Machine(e), blen) = [err |-> "nil", data |-> d]

C1_Pre ==
  /\ opened = "open" /\ ~orig.exists
  /\ "O_CREATE" \in flag /\ Writable
  /\ CallsThen({"Write"}, "Sync")

\* C1: on an object that does not exist before the handle is opened with
\* create and a write mode, Writes of any split of B and then Sync all
\* succeed, and reopening the path and reading to the end of the stream
\* returns exactly B, on the PutObject path and on the multipart path.
C1_RoundTrip == C1_Pre => AllNil /\ ReadsBack(Fresh(0, nw))

\* C1 on the multipart path: three Writes, two parts uploaded before Sync's
C1_Witness ==
  /\ C1_Pre /\ AllNil
  /\ Len(trace) = 4
  /\ multipart.state = "active" /\ Len(multipart.parts) >= 3
  /\ objects[name] = Object(Fresh(0, nw))

C2_Pre ==
  /\ opened = "open" /\ orig.exists
  /\ "O_RDWR" \in flag /\ "O_APPEND" \notin flag /\ "O_TRUNC" \notin flag
  /\ Ops = <<"WriteAt", "Sync">>
  /\ trace[1].args[2] >= 0 /\ trace[1].args[2] < Len(orig.data)

\* C2: on a freshly opened read-write handle over an existing object of size
\* S, one WriteAt(b, k) with 0 <= k < S and then Sync succeed and leave the
\* original object with b laid over it at k, and nothing else changed.
C2_MidObjectWrite ==
  C2_Pre => /\ AllNil
            /\ objects[name] =
                 Object(Overlay(orig.data, trace[1].args[2], Fresh(0, trace[1].args[1])))

\* C2 fails: a 3-byte object, minPartSize 2, WriteAt of one byte at 2 while
\* the body delivers its first byte alone; a zero byte is stored for 102
C2_Diverges ==
  /\ C2_Pre /\ AllNil
  /\ orig.data = <<101, 102, 103>> /\ trace[1].args = <<1, 2>>
  /\ objects[name] = Object(<<101, 0, 1>>)

C3_Pre ==
  /\ opened = "open" /\ orig.exists
  /\ Writable /\ "O_APPEND" \notin flag
  /\ Ops = <<"Truncate", "Sync">>
  /\ trace[1].args[1] <= Len(orig.data)

\* C3: on a writable handle that is not in append mode, over an existing
\* object of size S, Truncate(n) with 0 <= n <= S and then Sync leave an
\* object of exactly the first n bytes of the original.
C3_TruncateThenSync ==
  C3_Pre => /\ AllNil
            /\ objects[name] = Object(Take(orig.data, trace[1].args[1]))

\* C3 fails: a 3-byte object, Truncate(2), Sync; the stored object is empty
C3_Diverges ==
  /\ C3_Pre /\ AllNil
  /\ Len(orig.data) = 3 /\ trace[1].args = <<2>>
  /\ objects[name] = Object(<<>>)

C4_Pre ==
  /\ opened = "open" /\ ~orig.exists
  /\ "O_CREATE" \in flag /\ Writable
  /\ CallsThen({"Write"}, "Close")
  /\ AllNil

\* C4: when Close succeeds on a writable handle that accepted Writes and was
\* never synced, the store holds what a Sync just before the Close would
\* have left: on a path that did not exist, the object of the bytes written.
C4_CloseFinalizes == C4_Pre => objects[name] = Object(Fresh(0, nw))

\* C4 fails: Writes, then Close; no object is stored, no call was issued
C4_Diverges ==
  /\ C4_Pre
  /\ ~objects[name].exists
  /\ issued \cap Mutating = {}

\* C5: after Close has succeeded on a handle every later call on it fails,
\* a second Close with ErrClosed, and none of them issues a store call.
C5_ClosedIsTerminal ==
  (opened = "open" /\ ret.wasClosed) =>
    /\ ret.err # "nil"
    /\ ret.calls = <<>>
    /\ (ret.op = "Close" => ret.err = "ErrClosed")

\* C5 fails: Close, then Sync, which succeeds and puts the object
C5_Diverges ==
  /\ opened = "open" /\ ret.wasClosed
  /\ Ops = <<"Close", "Sync">>
  /\ ret.err = "nil" /\ "PutObject" \in Kinds(ret.calls)

C6_Pre ==
  /\ opened = "open" /\ orig.exists
  /\ "O_RDWR" \in flag /\ "O_APPEND" \in flag
  /\ CallsThen({"Write"}, "Sync")

\* C6: on an append-mode read-write handle over an existing object, Writes
\* b1..bn and then Sync succeed and leave the original bytes followed by
\* b1..bn in the order of the calls.
C6_Append ==
  C6_Pre => /\ AllNil
            /\ objects[name] = Object(orig.data \o Fresh(0, nw))

\* C6 fails: a 2-byte object, minPartSize 2, one Write of one byte while the
\* body delivers its first byte alone; a zero byte is stored for 102
C6_Diverges ==
  /\ C6_Pre /\ AllNil
  /\ orig.data = <<101, 102>> /\ Ops = <<"Write", "Sync">>
  /\ objects[name] = Object(<<101, 0, 1>>)

JustOpened == opened # "none" /\ ret.op = "OpenFile"

NoHandle(err) ==
  /\ opened = "failed" /\ ret.err = err
  /\ Kinds(ret.calls) \cap Mutating = {}
  /\ objects[name] = orig

\* C7 as the claim states it: OpenFile without O_CREATE fails with
\* ErrNotExist when the object does not exist, returning no handle and
\* issuing no mutating store call, and returns a handle when it exists.
C7_AsStated ==
  (JustOpened /\ "O_CREATE" \notin flag) =>
    IF orig.exists THEN opened = "open" /\ ret.err = "nil"
    ELSE NoHandle("ErrNotExist")

\* C7: OpenFile without O_CREATE and with both O_TRUNC and O_APPEND fails
\* with ErrAppendOnly whether or not the object exists; with any other flags
\* it fails with ErrNotExist when the object does not exist, returning no
\* handle and issuing no mutating store call, and returns a handle when it
\* exists.
C7_OpenWithoutCreate ==
  (JustOpened /\ "O_CREATE" \notin flag) =>
    IF {"O_TRUNC", "O_APPEND"} \subseteq flag THEN NoHandle("ErrAppendOnly")
    ELSE IF orig.exists THEN opened = "open" /\ ret.err = "nil"
    ELSE NoHandle("ErrNotExist")

\* C7 on a missing object opened read-write: the probe was issued and failed
C7_Witness ==
  /\ JustOpened /\ flag = {"O_RDWR"} /\ ~orig.exists
  /\ NoHandle("ErrNotExist")
  /\ Kinds(ret.calls) = {"HeadObject"}

C8_Pre ==
  /\ opened # "none"
  /\ "O_TRUNC" \in flag /\ Writable /\ "O_APPEND" \notin flag
  /\ ("O_CREATE" \in flag \/ orig.exists)

\* C8: OpenFile with a write mode and O_TRUNC (with O_CREATE whether or not
\* the object exists, without it when the object exists) returns a handle,
\* and after Write(b) and Sync on it the stored object is exactly b.
C8_TruncateOnOpen ==
  C8_Pre => /\ opened = "open"
            /\ (Ops = <<"Write", "Sync">> =>
                  AllNil /\ objects[name] = Object(Fresh(0, nw)))

\* C8 fails: O_WRONLY|O_CREATE|O_TRUNC on a missing object; no handle
C8_Diverges ==
  /\ C8_Pre /\ ~orig.exists
  /\ flag = {"O_WRONLY", "O_CREATE", "O_TRUNC"}
  /\ opened = "failed" /\ ret.err = "ErrNotExist"

\* C9: on a handle with neither O_WRONLY nor O_RDWR, whatever other bits its
\* flag carries, Write, WriteAt, Truncate and Sync fail with ErrReadOnly,
\* Write accepting no byte, the upload buffer, the upload offset and the
\* multipart upload keep their initial values, and no mutating store call is
\* issued.
C9_ReadOnlyNeverWrites ==
  (opened = "open" /\ ~Writable) =>
    /\ (ret.op \in {"Write", "WriteAt", "Truncate", "Sync"} =>
          ret.err = "ErrReadOnly" /\ ret.n = 0)
    /\ body = <<>> /\ uoff = 0 /\ multipart = NilMultipart
    /\ issued \cap Mutating = {}

\* C9 fails: O_RDONLY|O_CREATE on a missing object, Write, Sync; both
\* succeed and the object is stored
C9_Diverges ==
  /\ opened = "open" /\ flag = {"O_CREATE"} /\ ~orig.exists
  /\ Ops = <<"Write", "Sync">> /\ AllNil
  /\ objects[name] = Object(Fresh(0, nw))

\* C10: on a handle opened with O_WRONLY, Read and ReadAt fail with
\* ErrWriteOnly and return no byte, no call on the handle issues GetObject,
\* and the handle never holds a GetObject output.
C10_WriteOnlyNeverReads ==
  (opened = "open" /\ "O_WRONLY" \in flag) =>
    /\ (ret.op \in {"Read", "ReadAt"} =>
          ret.err = "ErrWriteOnly" /\ ret.n = 0 /\ ret.calls = <<>>)
    /\ "GetObject" \notin issued
    /\ out = NilOut

\* C10 on an existing object: a Write at an offset past the upload offset,
\* which has bytes of the object to copy, and then a Read
C10_Witness ==
  /\ opened = "open" /\ "O_WRONLY" \in flag /\ orig.exists
  /\ Ops = <<"WriteAt", "Read">>
  /\ trace[1].args[2] > 0
  /\ ret.op = "Read" /\ ret.err = "ErrWriteOnly"

\* the target of Seek(a[1], a[2]) with the offset at d and the object of size
SeekTarget(a, d, size) ==
  IF a[2] = 0 THEN a[1] ELSE IF a[2] = 1 THEN d + a[1] ELSE size + a[1]

SeekAsClaimed(r, t, size) ==
  IF t < 0 \/ t > size
    THEN r.err = "EOF" /\ r.n = 0 /\ r.m.doff = doff
    ELSE r.err = "nil" /\ r.n = t /\ r.m.doff = t

\* C11: in every state of a handle on an existing object, for every whence
\* and offset, a Seek whose target is negative or greater than the object's
\* size returns io.EOF and leaves fileDownload.off as it is, and a Seek
\* whose target t is within 0..size returns t and leaves fileDownload.off = t.
C11_SeekBounds ==
  (opened = "open" /\ objects[name].exists) =>
    \A a \in SeekArgs :
      SeekAsClaimed(Seek(Machine(Quiet), a[1], a[2]),
                    SeekTarget(a, doff, Len(objects[name].data)),
                    Len(objects[name].data))

\* C11 after a Seek that moved the offset and a Seek that was refused: the
\* offset is where the first one left it
C11_Witness ==
  /\ opened = "open" /\ orig.exists
  /\ Ops = <<"Seek", "Seek">>
  /\ trace[1].err = "nil" /\ trace[2].err = "EOF"
  /\ ret.op = "Seek" /\ ret.n = 0
  /\ doff > 0

Count(calls, kind) == Cardinality({i \in 1..Len(calls) : calls[i].kind = kind})

MultipartCalls == {"CreateMultipartUpload", "UploadPart", "CompleteMultipartUpload"}

\* a handle on a new object after Writes only, or after Writes and one Sync
C12_Pre ==
  /\ opened = "open" /\ ~orig.exists
  /\ "O_CREATE" \in flag /\ Writable
  /\ Len(trace) >= 1 /\ trace[1].op = "Write"
  /\ \A i \in 1..(Len(trace) - 1) : trace[i].op = "Write"

\* no multipart upload was ever created, and a Sync has put the object once
OnePut ==
  /\ multipart = NilMultipart
  /\ issued \cap MultipartCalls = {}
  /\ (ret.op = "Sync" => ret.err = "nil" /\ Count(ret.calls, "PutObject") = 1)

\* C12 as the claim states it: with fewer bytes written than the minimum
\* part size no multipart upload is ever created and Sync issues one
\* PutObject; with at least the minimum part size written, exactly that many
\* included, a multipart upload is created.
C12_AsStated ==
  C12_Pre => IF nw < minPartSize THEN OnePut ELSE multipart.state = "active"

\* C12: on a handle for a new object, with no more bytes written than the
\* minimum part size (fewer, or exactly that many) no multipart upload is
\* ever created and Sync issues one PutObject; with more bytes written than
\* the minimum part size a multipart upload is created.
C12_MultipartThreshold ==
  C12_Pre => IF nw <= minPartSize THEN OnePut
             ELSE multipart.state = "active" /\ "CreateMultipartUpload" \in issued

\* C12 at the threshold: two Writes of exactly the minimum part size in
\* all, then Sync, which puts them
C12_Witness ==
  /\ C12_Pre /\ AllNil
  /\ Ops = <<"Write", "Write", "Sync">>
  /\ nw = minPartSize
  /\ OnePut
  /\ objects[name] = Object(Fresh(0, nw))

Finalizing == {"PutObject", "CompleteMultipartUpload"}

\* the last of the calls cs is the only finalizing one among them, and succeeded
OneFinalizing(cs) ==
  /\ Len(cs) >= 1
  /\ {i \in 1..Len(cs) : cs[i].kind \in Finalizing} = {Len(cs)}
  /\ cs[Len(cs)].err = "nil"

\* the last of the calls cs put the whole buffer
PutWhole(c) ==
  /\ c.kind = "PutObject" /\ c.arg = body
  /\ issued \cap MultipartCalls = {}
  /\ objects[name] = Object(body)

\* the last of the calls cs completed the upload with all its parts, in
\* order, the buffered bytes being the last part
CompletedWhole(c) ==
  /\ multipart.state = "active"
  /\ c.kind = "CompleteMultipartUpload" /\ c.arg = multipart.parts
  /\ uploads[multipart.id].state = "completed"
  /\ objects[name] = Object(Concat(multipart.parts))
  /\ (body # <<>> => /\ multipart.parts # <<>>
                      /\ multipart.parts[Len(multipart.parts)].ETag = body)

\* C13: a Sync that returns nil has issued exactly one finalizing store
\* call, its last call, which succeeded: CompleteMultipartUpload with all the
\* parts in order, the buffered bytes flushed as the last part, when the
\* handle has a multipart upload, and otherwise PutObject with the whole
\* buffer; after a CreateMultipartUpload that failed Sync does not return nil.
C13_SyncFinalizes ==
  (opened = "open" /\ ret.op = "Sync" /\ ret.err = "nil") =>
    /\ OneFinalizing(ret.calls)
    /\ IF multipart.state = "nil" THEN PutWhole(ret.calls[Len(ret.calls)])
       ELSE CompletedWhole(ret.calls[Len(ret.calls)])

\* C13 after a failure: UploadPart failed in the Write, and the Sync
\* flushed the buffer as the only part and completed the upload
C13_Witness ==
  /\ opened = "open" /\ ~orig.exists
  /\ Ops = <<"Write", "Sync">>
  /\ trace[1].err = "StoreErr" /\ trace[2].err = "nil"
  /\ ret.op = "Sync" /\ OneFinalizing(ret.calls)
  /\ Len(multipart.parts) = 1
  /\ CompletedWhole(ret.calls[Len(ret.calls)])

\* after a CreateMultipartUpload that failed, Sync fails and sends nothing
C13_AfterFailedCreate ==
  /\ opened = "open"
  /\ Ops = <<"Write", "Sync">>
  /\ multipart.state = "noid"
  /\ ret.op = "Sync" /\ ret.err = "InvalidParameter"
  /\ Kinds(ret.calls) \cap Mutating = {}

\* the step is a call of op on S3Fs
FsStep(op) == Len(trace') = Len(trace) + 1 /\ ret'.op = op

Untouched(before, after, keys) == \A k \in Keys \ keys : after[k] = before[k]

\* Delete is issued only after a Copy that succeeded
DeleteAfterCopy(cs) ==
  \A i \in 1..Len(cs) :
    cs[i].kind = "DeleteObject" =>
      \E j \in 1..(i - 1) : cs[j].kind = "CopyObject" /\ cs[j].err = "nil"

CopyFailed(cs) == \E i \in 1..Len(cs) : cs[i].kind = "CopyObject" /\ cs[i].err # "nil"

RenameAsClaimed(before, after, old, new, r) ==
  (before[old].exists /\ ~before[new].exists /\ old # new) =>
    /\ DeleteAfterCopy(r.calls)
    /\ (r.err = "nil" =>
          /\ after[new] = before[old]
          /\ ~after[old].exists
          /\ Untouched(before, after, {old, new}))
    /\ (CopyFailed(r.calls) => r.err # "nil" /\ after = before)

\* C14: Rename(old, new) with old present, new absent and old # new: when it
\* returns nil, new holds what old held and old no longer exists; Delete is
\* issued only after Copy has succeeded, and when Copy fails Rename returns
\* its error and the bucket is as it was.
C14_Rename ==
  [][FsStep("Rename") =>
       RenameAsClaimed(objects, objects', trace'[Len(trace')].args[1],
                       trace'[Len(trace')].args[2], ret')]_vars

\* C14 fails: "./a" and "a" both present with different content, Rename of
\* "./a" to "b" returns nil, and "b" holds what "a" held
C14_Diverges ==
  /\ Ops = <<"Rename">> /\ trace[1].args = << <<".", "a">>, <<"b">> >>
  /\ ret.err = "nil"
  /\ ~objects[<<".", "a">>].exists
  /\ objects[<<"a">>] = Object(OrigData(1))
  /\ objects[<<"b">>] = Object(OrigData(1))
  /\ Kinds(ret.calls) = {"CopyObject", "DeleteObject"}

Answered(cs, kind) == \E i \in 1..Len(cs) : cs[i].kind = kind /\ cs[i].err \in {"nil", "404"}

Deletes(cs) == {cs[i].arg : i \in {j \in 1..Len(cs) : cs[j].kind = "DeleteObject"}}

RemoveAsClaimed(before, after, nm, r) ==
  /\ Untouched(before, after, {nm})
  /\ ~before[nm].exists =>
       /\ Deletes(r.calls) = {}
       /\ after = before
       /\ r.err # "nil"
       /\ Answered(r.calls, "HeadObject") => r.err = "ErrNotExist"
  /\ (before[nm].exists /\ Answered(r.calls, "HeadObject")) =>
       /\ Deletes(r.calls) = {nm}
       /\ r.err = "nil" => ~after[nm].exists

\* C15: Remove(path) of an absent object fails, with ErrNotExist when the
\* store answers the probe, and issues no Delete; of a present object it
\* issues Delete for that key, and once it has returned nil Open(path) fails
\* with ErrNotExist; no other key is affected.
C15_Remove ==
  [][FsStep("Remove") =>
       /\ RemoveAsClaimed(objects, objects', trace'[Len(trace')].args[1], ret')
       /\ ret'.err = "nil" =>
            (Open(Machine(Quiet), trace[Len(trace)].args[1]).err = "ErrNotExist")']_vars

\* Remove of a present object has returned nil
C15_Witness ==
  /\ Ops = <<"Remove">> /\ ret.err = "nil"
  /\ Deletes(ret.calls) = {trace[1].args[1]}
  /\ ~objects[trace[1].args[1]].exists
  /\ \E k \in Keys \ {trace[1].args[1]} : objects[k].exists

\* Remove of an absent object has failed with ErrNotExist
C15_Absent ==
  /\ Ops = <<"Remove">> /\ ret.err = "ErrNotExist"
  /\ Kinds(ret.calls) = {"HeadObject"}

\* the pages that a listing of len keys has, ps keys to the page
PagesOf(len, ps) == IF len = 0 THEN 1 ELSE (len + ps - 1) \div ps

\* the pages that hold the first k keys
PagesFor(k, ps) == (k + ps - 1) \div ps

ReaddirAsClaimed(all, n, ps, r) ==
  r.err = "nil" =>
    IF n > 0
      THEN /\ r.b = Take(all, n)
           /\ Len(r.calls) = IF Len(all) < n THEN PagesOf(Len(all), ps) ELSE PagesFor(n, ps)
      ELSE r.b = all /\ Len(r.calls) = PagesOf(Len(all), ps)

\* C16: Readdir(limit) with limit > 0 returns the first limit entries of the
\* listing, or all when there are fewer, and requests no page after the one
\* that completes them; with limit <= 0 it returns every key under the
\* prefix of the handle, across all pages.
C16_Readdir ==
  (Ops = <<"Readdir">>) =>
    ReaddirAsClaimed(Listing(objects, name), trace[1].args[1], trace[1].args[2], ret)

\* C16 fails: Readdir(1) on a listing of two keys or more returns two entries
C16_Diverges ==
  /\ Ops = <<"Readdir">> /\ trace[1].args[1] = 1 /\ ret.err = "nil"
  /\ Len(Listing(objects, name)) >= 2
  /\ Len(ret.b) = 2

\* Seek(off, io.SeekStart) followed, when it succeeds, by Read
SeekThenRead(m, blen, off) ==
  LET Sought(sk) ==
        IF sk.err # "nil" THEN [m |-> sk.m, n |-> 0, err |-> sk.err, b |-> <<>>]
        ELSE Read(sk.m, blen)
  IN Sought(Seek(m, off, 0))

\* the same bytes, the same error and the same handle
SameOutcome(x, y) ==
  /\ x.n = y.n /\ x.b = y.b /\ x.err = y.err
  /\ x.m.doff = y.m.doff /\ x.m.out = y.m.out

\* C17: on every open handle, for every offset (negative, within the object,
\* equal to its size, beyond it) and every buffer, ReadAt(buf, off) returns
\* the bytes and the error of Seek(off, fromStart) followed by Read(buf), and
\* leaves the same download offset and body behind.
C17_ReadAtIsSeekRead ==
  (opened = "open") =>
    \A blen \in 1..MaxLen, off \in -1..(MaxObj + 1) :
      LET Same(x, y) == SameOutcome(x, y)
      IN Same(ReadAt(Machine(Quiet), blen, off), SeekThenRead(Machine(Quiet), blen, off))

\* C17 fails: ReadAt at offset 0 has read a byte of a read-only handle and
\* the download offset is still 0, where Seek and Read leave it at 1
C17_Diverges ==
  /\ Ops = <<"ReadAt">> /\ flag = {} /\ ret.err = "nil" /\ ret.n = 1
  /\ doff = 0 /\ out = NilOut
  /\ LET Moved(x) == x.err = "nil" /\ x.b = ret.b /\ x.m.doff = 1
     IN Moved(SeekThenRead(Machine(Quiet), 1, 0))

\* the parts list carries the numbers 1, 2, ... in list order
Numbered(parts) == \A i \in 1..Len(parts) : parts[i].PartNumber = i

\* the parts that the UploadPart calls of cs that succeeded have uploaded
RECURSIVE Acknowledged(_)
Acknowledged(cs) ==
  IF cs = <<>> THEN <<>>
  ELSE IF Head(cs).kind = "UploadPart" /\ Head(cs).err = "nil"
    THEN <<[PartNumber |-> Head(cs).arg.PartNumber, ETag |-> Head(cs).arg.Body]>>
           \o Acknowledged(Tail(cs))
  ELSE Acknowledged(Tail(cs))

\* one call on the handle: had is the parts list before it, has the list
\* after it, cs its store calls
PartsStep(had, has, keeps, cs) ==
  /\ keeps => has = had \o Acknowledged(cs)
  /\ \A i \in 1..Len(cs) :
       cs[i].kind = "CompleteMultipartUpload" =>
         /\ cs[i].arg = had \o Acknowledged(SubSeq(cs, 1, i - 1))
         /\ Numbered(cs[i].arg)

\* C20: the parts list of a handle carries the numbers 1..len(parts) in list
\* order; a call extends it by exactly the parts whose UploadPart succeeded
\* during the call, in that order, and changes no entry it had; and
\* CompleteMultipartUpload is called with exactly this list.
C20_PartNumbering ==
  [][/\ Numbered(multipart'.parts)
     /\ (Len(trace') = Len(trace) + 1) =>
          PartsStep(multipart.parts, multipart'.parts,
                    multipart'.state = "active", ret'.calls)]_vars

\* a Sync has completed a session of two parts or more, after an UploadPart
\* that failed
C20_Witness ==
  /\ "StoreErr" \in {trace[i].err : i \in 1..Len(trace)}
  /\ "UploadPart" \in issued
  /\ ret.op = "Sync" /\ ret.err = "nil"
  /\ \E i \in 1..Len(ret.calls) :
       /\ ret.calls[i].kind = "CompleteMultipartUpload"
       /\ Len(ret.calls[i].arg) >= 2

\* the bucket as it was before either handle was opened
Before == [Machine(Quiet) EXCEPT !.objects[name] = orig, !.uploads = <<>>]

\* the calls of handle h so far, made on m with no other handle: i is the
\* call that is next, written the bytes handed to Write before it
RECURSIVE SoloRun(_, _, _, _)
SoloRun(m, h, i, written) ==
  IF i > Len(trace) THEN m
  ELSE IF trace[i].args[2] # h
    THEN SoloRun(m, h, i + 1, written + trace[i].args[1])
  ELSE IF trace[i].op = "Write"
    THEN SoloRun(Write(m, Fresh(written, trace[i].args[1])).m, h, i + 1,
                 written + trace[i].args[1])
  ELSE SoloRun(Sync(m).m, h, i + 1, written)

\* what handle h would have stored had the other handle never written
Solo(h) ==
  SoloRun(OpenFile(Before, MachineOf(h, Quiet).flag).m, h, 1, 0).objects[name]

Unwritten == [NewFile(Machine(Quiet), flag) EXCEPT !.uploads = <<>>]

\* Write of goroutine g, then Write of goroutine o
Serial(g, o) == Write(Write(Unwritten, run[g].b).m, run[o].b).m

\* the File and the store calls are those that m holds
SameAs(m) ==
  /\ body = m.body /\ uoff = m.uoff /\ doff = m.doff /\ multipart = m.multipart
  /\ ret.calls = m.calls

\* the part numbers of the UploadPart calls, in the order of the calls
PartNumbers(cs) ==
  [i \in 1..Len(SelectSeq(cs, LAMBDA c : c.kind = "UploadPart")) |->
     SelectSeq(cs, LAMBDA c : c.kind = "UploadPart")[i].arg.PartNumber]

Distinct(q) == \A i, j \in 1..Len(q) : q[i] = q[j] => i = j

\* both calls of Write have returned
BothDone == \A g \in Goroutines : run[g].pc = "done"

\* C18: two calls of Write in flight at once on one File leave the File and
\* the sequence of store calls as one of the two serial orders leaves them:
\* no call fails half way, no two UploadPart calls carry the same part number,
\* and every byte written is kept once.
C18_Serialized ==
  /\ \A g \in Goroutines : run[g].pc # "panic"
  /\ Distinct(PartNumbers(ret.calls))
  /\ BothDone => \E g, o \in Goroutines : g # o /\ SameAs(Serial(g, o))

\* C18 fails: both calls have returned, two UploadPart calls carried the
\* part number 1, and the File is what neither serial order leaves
C18_Diverges ==
  /\ BothDone
  /\ \E i, j \in 1..Len(PartNumbers(ret.calls)) :
       i # j /\ PartNumbers(ret.calls)[i] = 1 /\ PartNumbers(ret.calls)[j] = 1
  /\ \A g, o \in Goroutines : g # o => ~SameAs(Serial(g, o))

\* the calls ran one after the other and left what the serial order leaves
C18_SerialRun ==
  /\ BothDone /\ multipart.state = "active" /\ Len(multipart.parts) >= 2
  /\ SameAs(Serial(1, 2))

\* every part but the last is at least the minimum part size long
SizedParts(parts) == \A i \in 1..(Len(parts) - 1) : Len(parts[i].ETag) >= minPartSize

\* C21: in every state the parts recorded for the multipart session of the
\* handle are at least the minimum part size long, all but the one with the
\* highest number, and so is every list that CompleteMultipartUpload is
\* called with.
C21_PartSizes ==
  /\ SizedParts(multipart.parts)
  /\ \A i \in 1..Len(ret.calls) :
       ret.calls[i].kind = "CompleteMultipartUpload" => SizedParts(ret.calls[i].arg)

\* C21 fails: a part shorter than the minimum part size is recorded before
\* another part, after a Sync whose CompleteMultipartUpload failed
C21_Diverges ==
  /\ Len(trace) >= 2
  /\ trace[Len(trace) - 1].op = "Sync" /\ trace[Len(trace) - 1].err = "StoreErr"
  /\ multipart.state = "active"
  /\ \E i \in 1..(Len(multipart.parts) - 1) : Len(multipart.parts[i].ETag) < minPartSize

\* the upload that the session of the handle names is completed on the store
Completed(mp, ups) == mp.state = "active" /\ ups[mp.id].state = "completed"

\* the calls of cs that name an upload: UploadPart, CompleteMultipartUpload
OnUpload(cs) ==
  {i \in 1..Len(cs) : cs[i].kind \in {"UploadPart", "CompleteMultipartUpload"}}

\* C22: once a Sync has completed the multipart upload of the handle, no
\* later call on the handle issues UploadPart or CompleteMultipartUpload for
\* that upload.
C22_CompletedIsTerminal ==
  [][(Completed(multipart, uploads) /\ Len(trace') = Len(trace) + 1
        /\ multipart'.state = "active" /\ multipart'.id = multipart.id)
       => OnUpload(ret'.calls) = {}]_vars

\* C22 fails: a Sync completed the upload, and the Sync after it has sent
\* UploadPart for the same upload
C22_Diverges ==
  /\ Ops = <<"Sync", "Sync">> /\ trace[1].err = "nil"
  /\ Completed(multipart, uploads) /\ Len(uploads) = 1
  /\ \E i \in OnUpload(ret.calls) :
       ret.calls[i].kind = "UploadPart" /\ ret.calls[i].err = "NoSuchUpload"

\* the uploads that are neither completed nor aborted on the store
Dangling == {i \in 1..Len(uploads) : uploads[i].state = "active"}

\* the upload of the session that the handle holds
Held == IF multipart.state = "active" THEN {multipart.id} ELSE {}

\* C23: no multipart upload is left active on the store once the handle has
\* let go of it: after Truncate has reset the write state and, at the latest,
\* when Close has returned, every upload the handle created is completed or
\* aborted.
C23_NoDanglingSession == Dangling \subseteq Held

\* C23 fails: Write has created an upload, Close has returned nil, and the
\* upload is still active on the store
C23_Diverges ==
  /\ Ops = <<"Write", "Close">> /\ AllNil
  /\ closed /\ multipart = NilMultipart
  /\ Dangling = {1}

\* the call handed the client a request built from a session that has no
\* upload id: the client refuses it with InvalidParameter
RefusedByClient(r) == r.err = "InvalidParameter"

\* C24: no call on the handle fails half way, and none hands the client an
\* UploadPart or CompleteMultipartUpload request for a session that has no
\* upload id: after a CreateMultipartUpload that failed the handle holds no
\* such session.
C24_NoSessionWithoutId ==
  /\ multipart.state # "noid"
  /\ ret.err # "panic"
  /\ ~RefusedByClient(ret)

\* C24 fails: CreateMultipartUpload failed during Write, the handle keeps
\* the session without an upload id, and the next Write has handed it to
\* UploadPart
C24_Diverges ==
  /\ Ops = <<"Write", "Write">>
  /\ trace[1].err = "StoreErr" /\ issued = {"CreateMultipartUpload"}
  /\ multipart.state = "noid"
  /\ ret.op = "Write" /\ RefusedByClient(ret) /\ ret.calls = <<>>

\* the calls of cs that store an object, and have succeeded
Stored(cs) ==
  {i \in 1..Len(cs) : cs[i].kind \in {"PutObject", "CompleteMultipartUpload"}
                         /\ cs[i].err = "nil"}

\* C25: a call on the handle changes the stored object only when it is a
\* Sync that has sent a PutObject or a CompleteMultipartUpload that
\* succeeded: no other handler changes it, and a Write or a Sync that
\* returns an error leaves it as it was.
C25_InvisibleUntilFinalized ==
  [][(objects' # objects) =>
       /\ ret'.op = "Sync" /\ ret'.err = "nil"
       /\ Stored(ret'.calls) # {}]_vars

\* a Write has sent a part, the Sync after it has failed at
\* CompleteMultipartUpload, and the object is as it was before the handle
\* was opened
C25_Witness ==
  /\ Ops = <<"Write", "Sync">>
  /\ trace[1].err = "nil" /\ "UploadPart" \in issued
  /\ ret.err = "StoreErr"
  /\ ret.calls[Len(ret.calls)].kind = "CompleteMultipartUpload"
  /\ orig.exists /\ objects[name] = orig

\* Read has returned bytes of data from offset k on, and the stream stands
\* behind them
ReadFrom(r, data, k) ==
  /\ r.err \in {"nil", "EOF"}
  /\ r.b = SubSeq(data, k + 1, k + r.n)
  /\ r.m.out.pos = k + r.n
  /\ (r.n = 0 /\ r.err = "EOF") => k = Len(data)

\* C26: a Read that opens the stream with the download offset at k, 0 <= k
\* <= size, discards exactly k bytes and returns the bytes of the object
\* from offset k on, for every k, every minimum part size and every way
\* the stream splits its data into short reads.
C26_SkipsExactlyTheCursor ==
  (/\ opened = "open" /\ "O_WRONLY" \notin flag /\ out = NilOut
   /\ objects[name].exists /\ doff <= Len(objects[name].data)) =>
    \A blen \in 1..MaxLen, e \in Envs :
      LET Exact(r) == ReadFrom(r, objects[name].data, doff)
      IN Exact(Read(Machine(e), blen))

\* C26 fails: after Seek to an offset before the end, Read has found the
\* stream at its end and returned no byte
C26_Diverges ==
  /\ Ops = <<"Seek", "Read">> /\ trace[1].err = "nil"
  /\ "GetObject" \in Kinds(ret.calls)
  /\ ret.n = 0 /\ ret.err = "EOF"
  /\ doff < Len(objects[name].data)

\* the bytes the handle has fed into the upload path, in order
UploadStream(m) == Concat(m.multipart.parts) \o m.body

\* Write of b has fed the bytes [u, d) of data and then b, and left the
\* upload offset behind them
GapFilled(m, r, data, b) ==
  /\ r.err = "nil"
  /\ UploadStream(r.m) = UploadStream(m) \o SubSeq(data, m.uoff + 1, m.doff) \o b
  /\ r.m.uoff = m.doff + Len(b)

\* C27: when Write on a readable handle finds the upload offset u below the
\* download offset d, it feeds into the upload path exactly the bytes [u, d)
\* of the object and then the bytes of the caller, and leaves the upload
\* offset at d + len(b), for every gap, every minimum part size and every
\* way the stream splits its data into short reads.
C27_GapFillCopiesExactly ==
  (/\ opened = "open" /\ flag # {} /\ flag \cap {"O_WRONLY", "O_APPEND"} = {}
   /\ uoff < doff /\ objects[name].exists /\ doff <= Len(objects[name].data)
   /\ ~Completed(multipart, uploads)) =>
    \A len \in 1..MaxLen, e \in Envs :
      LET Exact(m, r) == GapFilled(m, r, objects[name].data, Fresh(nw, len))
      IN Exact(Machine(e), Write(Machine(e), Fresh(nw, len)))

\* C27 fails: WriteAt behind the first two bytes of the object has returned
\* nil, and the upload path holds a zero where the second byte belongs
C27_Diverges ==
  /\ Ops = <<"WriteAt">> /\ AllNil /\ trace[1].args = <<1, 2>>
  /\ orig.exists /\ Len(orig.data) >= 2
  /\ "O_RDWR" \in flag /\ "O_APPEND" \notin flag
  /\ UploadStream(Machine(Quiet)) = <<101, 0, 1>>

\* the calls so far are calls of the handlers C28 names
PositionCalls ==
  \A i \in 1..Len(trace) :
    trace[i].op \in {"Read", "Seek", "Write", "WriteAt", "Truncate", "Sync"}

\* C28: on a read-write handle, after any calls of Read, Seek, Write,
\* WriteAt, Truncate and Sync, whenever the remote stream is open the number
\* of bytes consumed from it equals the download offset.
C28_StreamAgreesWithCursor ==
  (/\ opened = "open" /\ "O_RDWR" \in flag /\ PositionCalls
   /\ out.state = "open") => out.pos = doff

\* C28 fails: Read of one byte and then Write of two bytes have returned
\* nil, the stream is open behind the download offset, and the next Read
\* returns a byte where the offset stands at the end of the object
C28_Diverges ==
  /\ Ops = <<"Read", "Write">> /\ AllNil
  /\ "O_RDWR" \in flag /\ "O_APPEND" \notin flag
  /\ out.state = "open" /\ out.pos < doff
  /\ doff = Len(orig.data) /\ objects[name] = orig
  /\ LET Stale(r) == r.err = "nil" /\ r.n = 1 /\ r.b = <<orig.data[out.pos + 1]>>
     IN Stale(Read(Machine(Quiet), 1))

C29_Pre ==
  /\ opened = "open" /\ orig.exists
  /\ "O_RDWR" \in flag /\ flag \cap {"O_APPEND", "O_TRUNC"} = {}
  /\ Ops = <<"Write", "WriteAt", "Sync">>
  /\ trace[2].args[2] >= 0 /\ trace[2].args[2] < trace[1].args[1]
  /\ trace[2].args[2] <= Len(orig.data)

\* the object with b1 laid over it at 0 and then b2 laid over that at k
Overwritten(d, l1, l2, k) ==
  Overlay(Overlay(d, 0, Fresh(0, l1)), k, Fresh(l1, l2))

\* C29: on a read-write handle over an existing object, Write(b1) at offset
\* 0, then WriteAt(b2, k) with k < len(b1), then Sync succeed and store the
\* original object with b1 laid over it at 0 and b2 laid over that at k.
C29_BackwardWriteAtOverwrites ==
  C29_Pre =>
    /\ AllNil
    /\ objects[name] =
         Object(Overwritten(orig.data, trace[1].args[1],
                            trace[2].args[1], trace[2].args[2]))

\* C29 fails: Write of two bytes, WriteAt of one byte at 1 and Sync have
\* returned nil over a 3-byte object, and the byte of WriteAt is stored at
\* offset 2, behind the bytes of Write
C29_Diverges ==
  /\ C29_Pre /\ AllNil
  /\ orig.data = <<101, 102, 103>>
  /\ trace[1].args = <<2>> /\ trace[2].args = <<1, 1>>
  /\ objects[name] = Object(<<1, 2, 3>>)

\* a write-only handle over an object that existed, with bytes, when the
\* handle was opened, and that OpenFile did not truncate
C30_Pre ==
  /\ opened = "open" /\ "O_WRONLY" \in flag /\ "O_TRUNC" \notin flag
  /\ orig.exists /\ Len(orig.data) > 0

\* WriteAt at an offset inside the object, above 0
C30_WriteAtAbove ==
  /\ Ops = <<"WriteAt">> /\ "O_APPEND" \notin flag
  /\ trace[1].args[2] > 0 /\ trace[1].args[2] <= Len(orig.data)

\* Write in append mode
C30_AppendWrite == Ops = <<"Write">> /\ "O_APPEND" \in flag

\* Sync after a Write of fewer bytes than the object holds
C30_ShortWriteSync ==
  /\ Ops = <<"Write", "Sync">> /\ "O_APPEND" \notin flag
  /\ trace[1].err = "nil" /\ trace[1].args[1] < Len(orig.data)

\* C30: on a write-only handle over an existing object with bytes, WriteAt
\* at an offset above 0, Write in append mode, and Sync after a Write of
\* fewer bytes than the object holds all return nil, never ErrWriteOnly, and
\* Sync stores the written bytes laid over the object with the bytes behind
\* them kept.
C30_WriteOnlyUpdates ==
  C30_Pre =>
    /\ (C30_WriteAtAbove \/ C30_AppendWrite) => ret.err = "nil"
    /\ C30_ShortWriteSync =>
         /\ ret.err = "nil"
         /\ objects[name] =
              Object(Overlay(orig.data, 0, Fresh(0, trace[1].args[1])))

\* C30 fails: over a 3-byte object, Write of one byte has returned nil and
\* Sync has returned ErrWriteOnly from its copy of the tail, with nothing
\* stored
C30_Diverges ==
  /\ C30_Pre /\ C30_ShortWriteSync
  /\ orig.data = <<101, 102, 103>> /\ trace[1].args = <<1>>
  /\ ret.op = "Sync" /\ ret.err = "ErrWriteOnly"
  /\ objects[name] = orig

\* the calls so far are calls of Write, WriteAt, Truncate and Sync, and all
\* have returned nil
C31_Pre ==
  /\ opened = "open" /\ Writable /\ AllNil
  /\ \A i \in 1..Len(trace) : trace[i].op \in {"Write", "WriteAt", "Truncate", "Sync"}

\* the upload offset counts the bytes of the uploaded parts and of the buffer
Accounted(m) == m.uoff = Len(Concat(m.multipart.parts)) + Len(m.body)

\* C31: after any successful calls of Write, WriteAt, Truncate and Sync, the
\* upload offset equals the size of the parts uploaded in the session plus
\* the length of the buffer, and the parts followed by the buffer are the
\* content written so far, up to the upload offset: no byte is counted or
\* submitted twice and none is dropped.
C31_ByteAccounting ==
  C31_Pre =>
    /\ Accounted(Machine(Quiet))
    /\ UploadStream(Machine(Quiet)) = Take(ref, uoff)

\* C31 fails: with a minimum part size of 1, Write of two bytes and Sync
\* have returned nil on a new object, and the second byte is in the second
\* part and still in the buffer, 3 bytes held for an upload offset of 2
C31_Diverges ==
  /\ C31_Pre /\ Ops = <<"Write", "Sync">>
  /\ ~orig.exists /\ minPartSize = 1 /\ trace[1].args = <<2>>
  /\ Concat(multipart.parts) = <<1, 2>> /\ body = <<2>> /\ uoff = 2
  /\ objects[name] = Object(<<1, 2>>)

====
